---- MODULE Spec2Model ----
(***************************************************************************)
(* Iterative solvers of python-lectures/10_linear_systems_iterative.ipynb  *)
(* (jacobi, gauss_seidel, gradient) on the finite-difference Dirichlet     *)
(* system assembled by the notebook's first cells.                         *)
(*                                                                         *)
(* Floating-point numbers are modelled by exact rationals [n, d] in lowest *)
(* terms (d > 0); d = 0 encodes the IEEE values a division by zero yields: *)
(* [1,0] = +inf, [-1,0] = -inf, [0,0] = nan.  Rounding is not modelled.    *)
(* Arrays are functions over the Python index range 0..N-1.                *)
(***************************************************************************)
EXTENDS Integers, Sequences, FiniteSets, TLC

----------------------------------------------------------------------------
(* Bounds of the model *)

\* largest number of sample points n of the notebook (the notebook sets 33)
MaxN == 4
\* largest iteration cap nmax passed to a solver (the defaults are 10000, 8000)
MaxNmax == 2

----------------------------------------------------------------------------
(* float64 arithmetic, exact *)

(* The element of a one-element set.  The operators below bind their       *)
(* arguments through one-element sets, so that an argument is evaluated    *)
(* once, however often the body reads it.                                  *)
Only(S) == CHOOSE v \in S : TRUE

Abs(k0) == Only({IF k < 0 THEN -k ELSE k : k \in {k0}})
Sign(k0) == Only({IF k < 0 THEN -1 ELSE IF k = 0 THEN 0 ELSE 1 : k \in {k0}})

RECURSIVE GCD(_, _)
GCD(p0, q0) ==
    Only({IF q = 0 THEN p ELSE GCD(q, p % q) : p \in {p0}, q \in {q0}})

\* the float with value p/q, q >= 0, in lowest terms
Rat(p0, q0) ==
    Only({IF q = 0 THEN [n |-> Sign(p), d |-> 0]
          ELSE LET g == GCD(Abs(p), q) IN [n |-> p \div g, d |-> q \div g] :
          p \in {p0}, q \in {q0}})

Zero == [n |-> 0, d |-> 1]
One == [n |-> 1, d |-> 1]
NaN == [n |-> 0, d |-> 0]
Inf == [n |-> 1, d |-> 0]

IsFinite(a) == a.d > 0
IsNaN(a) == a.d = 0 /\ a.n = 0

\* a + b
RAdd(a0, b0) ==
    Only({IF IsFinite(a) /\ IsFinite(b)
          THEN LET l == (a.d \div GCD(a.d, b.d)) * b.d
               IN  Rat(a.n * (l \div a.d) + b.n * (l \div b.d), l)
          ELSE IF IsNaN(a) \/ IsNaN(b) THEN NaN
          ELSE IF IsFinite(a) THEN b
          ELSE IF IsFinite(b) THEN a
          ELSE IF a.n = b.n THEN a ELSE NaN :
          a \in {a0}, b \in {b0}})

\* -a
RNeg(a0) == Only({[n |-> -(a.n), d |-> a.d] : a \in {a0}})

\* a - b
RSub(a, b) == RAdd(a, RNeg(b))

\* a * b  (inf * 0 = nan, nan * c = nan: the sign product is 0)
RMul(a0, b0) ==
    Only({IF IsFinite(a) /\ IsFinite(b)
          THEN Only({Rat((a.n \div g1) * (b.n \div g2),
                         (a.d \div g2) * (b.d \div g1)) :
                     g1 \in {GCD(Abs(a.n), b.d)}, g2 \in {GCD(Abs(b.n), a.d)}})
          ELSE [n |-> Sign(a.n) * Sign(b.n), d |-> 0] :
          a \in {a0}, b \in {b0}})

\* 1./a  (1./0 = inf, 1./inf = 0, 1./nan = nan)
RInv(a0) ==
    Only({IF IsFinite(a)
          THEN IF a.n = 0 THEN [n |-> 1, d |-> 0]
               ELSE [n |-> Sign(a.n) * a.d, d |-> Abs(a.n)]
          ELSE IF IsNaN(a) THEN NaN ELSE Zero :
          a \in {a0}})

\* a / b
RDiv(a, b) == RMul(a, RInv(b))

\* a < b  (every comparison with nan is False)
RLt(a0, b0) ==
    Only({IF IsNaN(a) \/ IsNaN(b) THEN FALSE
          ELSE IF IsFinite(a) /\ IsFinite(b)
          THEN Only({a.n * (b.d \div g) < b.n * (a.d \div g) :
                     g \in {GCD(a.d, b.d)}})
          ELSE IF IsFinite(a) THEN b.n > 0
          ELSE IF IsFinite(b) THEN a.n < 0
          ELSE a.n < b.n :
          a \in {a0}, b \in {b0}})

\* a <= b
RLe(a0, b0) ==
    Only({RLt(a, b) \/ (~IsNaN(a) /\ a = b) : a \in {a0}, b \in {b0}})

----------------------------------------------------------------------------
(* numpy array operations *)

\* zeros_like(b), ones_like(b) for a vector of length N
zeros_like(N) == [i \in 0..(N - 1) |-> Zero]
ones_like(N) == [i \in 0..(N - 1) |-> One]

\* len(A)
len(M) == Cardinality(DOMAIN M)

\* dot(u[lo:hi], v[lo:hi])
RECURSIVE DotRange(_, _, _, _)
DotRange(u, v, lo, hi) ==
    IF lo >= hi THEN Zero
    ELSE RAdd(DotRange(u, v, lo, hi - 1), RMul(u[hi - 1], v[hi - 1]))

\* dot(u, v) of two vectors
dot(u, v) == DotRange(u, v, 0, len(u))

\* dot(A, x) of a matrix and a vector
matvec(M, v) == [i \in DOMAIN M |-> dot(M[i], v)]

\* u - v, u + v, v * c  elementwise
vsub(u, v) == [i \in DOMAIN u |-> RSub(u[i], v[i])]
vadd(u, v) == [i \in DOMAIN u |-> RAdd(u[i], v[i])]
vscale(v, c) == [i \in DOMAIN v |-> RMul(v[i], c)]

\* b - dot(A, x)
residual(M, rhs, v) == vsub(rhs, matvec(M, v))

(* A tolerance value: tol is first eps+1, a float, and then a Euclidean     *)
(* norm, the square root of a float; the root is kept symbolic.            *)
Num(a) == [kind |-> "num", v |-> a]

\* numpy.linalg.norm(res, 2)
norm2(res) == [kind |-> "sqrt", v |-> dot(res, res)]

\* tol > eps
TolGt(t, e) ==
    IF t.kind = "num" THEN RLt(e, t.v)
    ELSE IF IsNaN(t.v) \/ IsNaN(e) THEN FALSE
    ELSE IF RLt(e, Zero) THEN TRUE
    ELSE RLt(RMul(e, e), t.v)

\* tol <= eps
TolLe(t, e) ==
    IF t.kind = "num" THEN RLe(t.v, e)
    ELSE IF IsNaN(t.v) \/ IsNaN(e) THEN FALSE
    ELSE IF RLt(e, Zero) THEN FALSE
    ELSE RLe(t.v, RMul(e, e))

----------------------------------------------------------------------------
(* numpy.linalg.solve, by Gauss-Jordan elimination in exact arithmetic *)

\* the value of a name that holds no array (not assigned yet, or dropped)
Undefined == <<>>
LinAlgError == "LinAlgError"

\* the rows k..N-1 of M whose entry in column k is not zero
PivotRows(M, k, N) == {p \in k..(N - 1) : M[p][k] # Zero}

\* M with rows p and k exchanged
SwapRows(M, p, k) ==
    [i \in DOMAIN M |-> IF i = k THEN M[p] ELSE IF i = p THEN M[k] ELSE M[i]]

\* the augmented matrix after column k has been reduced to a unit column
ReduceColumn(M, k, N) ==
    LET piv == M[k][k]
        row == [j \in 0..N |-> RDiv(M[k][j], piv)]
    IN  [i \in 0..(N - 1) |->
            IF i = k THEN row
            ELSE [j \in 0..N |-> RSub(M[i][j], RMul(M[i][k], row[j]))]]

\* (the matrix is bound once, tabulated: the comparison T = T tabulates it)
RECURSIVE Eliminate(_, _, _)
Eliminate(M0, k, N) ==
    Only({IF k = N THEN [i \in 0..(N - 1) |-> M[i][N]]
          ELSE IF PivotRows(M, k, N) = {} THEN LinAlgError
          ELSE LET p == CHOOSE q \in PivotRows(M, k, N) :
                            \A q2 \in PivotRows(M, k, N) : q <= q2
               IN  Eliminate(ReduceColumn(SwapRows(M, p, k), k, N), k + 1, N) :
          M \in {T \in {M0} : T = T}})

\* linalg.solve(M, rhs): the solution vector, or LinAlgError when M is singular
solve(M, rhs) ==
    LET N == len(M)
        aug == [i \in 0..(N - 1) |->
                   [j \in 0..N |-> IF j = N THEN rhs[i] ELSE M[i][j]]]
    IN  Eliminate(aug, 0, N)

\* identity(N)
identity(N) ==
    [i \in 0..(N - 1) |-> [j \in 0..(N - 1) |-> IF i = j THEN One ELSE Zero]]

----------------------------------------------------------------------------
(* The notebook's cells before the solvers *)

\* h = 1./(n-1)
hOf(m) == Rat(1, m - 1)

\* linspace(0,1,n)
linspace(m) == [i \in 0..(m - 1) |-> Rat(i, m - 1)]

\* (diag(a,-1) + diag(b,0) + diag(a,+1)) / h**2, a = -ones(n-1), b = 2*ones(n)
Tridiagonal(m) ==
    LET h2 == RMul(hOf(m), hOf(m))
    IN  [i \in 0..(m - 1) |-> [j \in 0..(m - 1) |->
            IF i = j THEN RDiv(Rat(2, 1), h2)
            ELSE IF Abs(i - j) = 1 THEN RDiv(Rat(-1, 1), h2)
            ELSE RDiv(Zero, h2)]]

\* f = x*(1.-x) on the grid
Forcing(m) ==
    LET xs == linspace(m)
    IN  [i \in 0..(m - 1) |-> RMul(xs[i], RSub(One, xs[i]))]

\* mutant: the column is not zeroed (A[k,:] = 0; A[k,k] = 1 only)
EliminateLineRowOnly(M, k) ==
    [i \in DOMAIN M |-> [j \in DOMAIN M |->
        IF i = k /\ j = k THEN One
        ELSE IF i = k THEN Zero
        ELSE M[i][j]]]

\* A[k,:] = 0; A[:,k] = 0; A[k,k] = 1
EliminateLine(M, k) ==
    [i \in DOMAIN M |-> [j \in DOMAIN M |->
        IF i = k /\ j = k THEN One
        ELSE IF i = k \/ j = k THEN Zero
        ELSE M[i][j]]]

\* f[k] = 0
ZeroEntry(v, k) == [v EXCEPT ![k] = Zero]

\* the matrix and the right-hand side cell 17 leaves behind
DirichletMatrix(m) == EliminateLine(EliminateLine(Tridiagonal(m), 0), m - 1)
DirichletRhs(m) == ZeroEntry(ZeroEntry(Forcing(m), 0), m - 1)

----------------------------------------------------------------------------
(* The update formulas the notebook states for the two sweeps *)

\* x_i^{k+1} = 1/A_ii * (b_i - sum_{j # i} a_ij x_j^k)
JacobiFormula(M, b, xk, k) ==
    RDiv(RSub(b[k], RAdd(DotRange(M[k], xk, 0, k),
                         DotRange(M[k], xk, k + 1, len(M)))),
         M[k][k])

\* x_i^{k+1} = 1/A_ii * (b_i - sum_{j<i} a_ij x_j^{k+1} - sum_{j>i} a_ij x_j^k)
GaussSeidelFormula(M, b, xk1, xk, k) ==
    RDiv(RSub(b[k], RAdd(DotRange(M[k], xk1, 0, k),
                         DotRange(M[k], xk, k + 1, len(M)))),
         M[k][k])

----------------------------------------------------------------------------
(* The gradient method as the notebook states it, without preconditioner:  *)
(* r^k = b - A x^k, alpha^k = r.r / r.A r, x^{k+1} = x^k + alpha^k r^k,     *)
(* stopped like the solvers, on the cap or the tolerance.                  *)

RECURSIVE SteepestDescent(_, _, _, _, _, _)
SteepestDescent(M, b, xk, k, cap, e) ==
    LET rk == residual(M, b, xk)
    IN  IF k >= cap \/ TolLe(norm2(rk), e)
        THEN [x |-> xk, r |-> rk, it |-> k]
        ELSE LET alpha == RDiv(dot(rk, rk), dot(rk, matvec(M, rk)))
             IN  SteepestDescent(M, b, vadd(xk, vscale(rk, alpha)), k + 1, cap, e)

----------------------------------------------------------------------------
(* State *)

VARIABLES
    pc,      \* the cell or statement about to run
    n,       \* number of sample points
    A,       \* global matrix A
    f,       \* global right-hand side f
    A1,      \* A1 = A.copy()
    u,       \* u = linalg.solve(A1, f)
    nmax,    \* iteration cap passed to the solvers
    eps,     \* tolerance passed to the solvers
    P,       \* gradient: its preconditioner argument
    N,       \* jacobi, gauss_seidel: N = len(A)
    x,       \* the solver's local x
    x_old,   \* the solver's local x_old
    tol,     \* the solver's local tol
    it,      \* the solver's local it
    i,       \* index of the inner for loop
    res,     \* the solver's local res
    z,       \* gradient: local z
    r,       \* gradient: local r; conjugate gradient: the residual r^k
    p,       \* conjugate gradient: the direction p^k
    x_prev,  \* history: the iterate the running sweep started from
    ret      \* per solver, how its last call ended

globals == <<n, A, f, A1, u, nmax, eps>>
locals == <<P, N, x, x_old, tol, it, i, res, z, r, p>>
vars == <<pc, globals, locals, x_prev, ret>>

Solvers == {"jacobi", "gauss_seidel", "gradient"}

\* a solver that has not been called yet
NotCalled == [status |-> "none"]

\* a call that ended with `return x` after `print it, tol`
Returned(value, count, t) ==
    [status |-> "returned", value |-> value, it |-> count, tol |-> t]

\* a call of gradient that ended with an exception, and the preconditioner
\* the call was given
RaisedWith(exc, precond) == [status |-> "raised", exc |-> exc, P |-> precond]

----------------------------------------------------------------------------
(* Inputs *)

\* numbers of sample points
Sizes == 3..MaxN

\* iteration caps
NmaxValues == (-1)..MaxNmax

\* tolerances; inf is the float for which eps+1 > eps does not hold (float64
\* has finite ones too, from 2**53 on)
EpsValues == {Rat(-1, 1), Zero, Rat(2, 1), Rat(7, 1), Inf}

Vec(s) == [k \in 0..(Len(s) - 1) |-> Rat(s[k + 1], 1)]
Mat(s) == [k \in 0..(Len(s) - 1) |-> Vec(s[k + 1])]

(* Other systems the solvers are called on: a coupled SPD 2x2 system whose *)
(* solution is the all-ones vector, a symmetric 2x2 system whose first     *)
(* diagonal entry is zero, a system with identity boundary rows whose      *)
(* boundary columns are not zero, a coupled SPD 3x3 system.                *)
OtherSystems ==
    { [A |-> Mat(<< <<2, 1>>, <<1, 2>> >>), f |-> Vec(<<3, 3>>)],
      [A |-> Mat(<< <<0, 1>>, <<1, 2>> >>), f |-> Vec(<<2, 3>>)],
      [A |-> Mat(<< <<1, 0, 0>>, <<-1, 2, -1>>, <<0, 0, 1>> >>),
       f |-> Vec(<<0, 1, 0>>)],
      [A |-> Mat(<< <<4, -1, 0>>, <<-1, 4, -1>>, <<0, -1, 4>> >>),
       f |-> Vec(<<1, 2, 3>>)] }

(* No call is running: the array and tol locals hold Undefined, the        *)
(* integer locals N, it, i hold 0; pc tells which locals are bound.         *)
NoLocals ==
    /\ P = Undefined /\ N = 0 /\ x = Undefined /\ x_old = Undefined
    /\ tol = Undefined /\ it = 0 /\ i = 0 /\ res = Undefined
    /\ z = Undefined /\ r = Undefined /\ p = Undefined
    /\ x_prev = Undefined

\* the frame of a call is dropped when the call ends
DropLocals ==
    /\ P' = Undefined /\ N' = 0 /\ x' = Undefined /\ x_old' = Undefined
    /\ tol' = Undefined /\ it' = 0 /\ i' = 0 /\ res' = Undefined
    /\ z' = Undefined /\ r' = Undefined /\ p' = Undefined
    /\ x_prev' = Undefined

Init ==
    /\ nmax \in NmaxValues
    /\ eps \in EpsValues
    /\ \/ /\ pc = "cell16"
          /\ n \in Sizes
          /\ A = Undefined /\ f = Undefined
       \/ /\ pc = "ready"
          /\ \E s \in OtherSystems : A = s.A /\ f = s.f /\ n = len(s.A)
    /\ A1 = Undefined /\ u = Undefined
    /\ NoLocals
    /\ ret = [s \in Solvers |-> NotCalled]

----------------------------------------------------------------------------
(* Cells 16 and 17: assembly and boundary conditions *)

AssembleMatrix ==
    /\ pc = "cell16"
    /\ A' = Tridiagonal(n)
    /\ pc' = "cell17"
    /\ UNCHANGED <<n, f, A1, u, nmax, eps, locals, x_prev, ret>>

ImposeBC ==
    /\ pc = "cell17"
    /\ LET Abc == EliminateLine(EliminateLine(A, 0), n - 1)
           fbc == ZeroEntry(ZeroEntry(Forcing(n), 0), n - 1)
       IN  /\ A' = Abc
           /\ f' = fbc
           /\ A1' = Abc
           /\ u' = solve(Abc, fbc)
    /\ pc' = "ready"
    /\ UNCHANGED <<n, nmax, eps, locals, x_prev, ret>>

----------------------------------------------------------------------------
(* jacobi(A, f, nmax, eps) *)

\* mutant: the diagonal entry is not left out of the sum
JacobiEntryWholeRow(M, b, xo, k, len_) ==
    RMul(RInv(M[k][k]), RSub(b[k], DotRange(M[k], xo, 0, len_)))

\* 1./A[i,i]*(b[i]-dot(A[i,0:i],x_old[0:i]) - dot(A[i,i+1:N],x_old[i+1:N]))
JacobiEntry(M, b, xo, k, len_) ==
    RMul(RInv(M[k][k]),
         RSub(RSub(b[k], DotRange(M[k], xo, 0, k)),
              DotRange(M[k], xo, k + 1, len_)))

JacobiCall ==
    /\ pc = "ready"
    /\ N' = len(A)
    /\ x' = zeros_like(len(f))
    /\ x_old' = ones_like(len(f))
    /\ tol' = Num(RAdd(eps, One))
    /\ it' = 0
    /\ pc' = "j_while"
    /\ UNCHANGED <<globals, P, i, res, z, r, p, x_prev, ret>>

\* while(it<nmax and tol>eps): it+=1
JacobiWhile ==
    /\ pc = "j_while"
    /\ IF it < nmax /\ TolGt(tol, eps)
       THEN /\ it' = it + 1
            /\ i' = 0
            /\ x_prev' = IF it = 0 THEN x_old ELSE x
            /\ pc' = "j_for"
       ELSE /\ pc' = "j_after"
            /\ UNCHANGED <<it, i, x_prev>>
    /\ UNCHANGED <<globals, P, N, x, x_old, tol, res, z, r, p, ret>>

\* mutant: res, tol and x_old are updated in the loop, after each sweep
JacobiForUpdatesInLoop ==
    /\ pc = "j_for"
    /\ x' = [x EXCEPT ![i] = JacobiEntry(A, f, x_old, i, N)]
    /\ i' = i + 1
    /\ IF i + 1 < N
       THEN /\ pc' = "j_for"
            /\ UNCHANGED <<res, tol, x_old>>
       ELSE /\ pc' = "j_while"
            /\ res' = residual(A, f, x')
            /\ tol' = norm2(res')
            /\ x_old' = x'
    /\ UNCHANGED <<globals, P, N, it, z, r, p, x_prev, ret>>

\* for i in range(N): x[i] = ...
JacobiFor ==
    /\ pc = "j_for"
    /\ x' = [x EXCEPT ![i] = JacobiEntry(A, f, x_old, i, N)]
    /\ i' = i + 1
    /\ pc' = IF i + 1 < N THEN "j_for" ELSE "j_while"
    /\ UNCHANGED <<globals, P, N, x_old, tol, it, res, z, r, p, x_prev, ret>>

\* after the loop: res= b-dot(A,x); tol=numpy.linalg.norm(res,2); x_old =x.copy()
JacobiAfter ==
    /\ pc = "j_after"
    /\ res' = residual(A, f, x)
    /\ tol' = norm2(res')
    /\ x_old' = x
    /\ pc' = "j_ret"
    /\ UNCHANGED <<globals, P, N, x, it, i, z, r, p, x_prev, ret>>

\* print it, tol; return x
JacobiReturn ==
    /\ pc = "j_ret"
    /\ ret' = [ret EXCEPT !["jacobi"] = Returned(x, it, tol)]
    /\ pc' = "ready"
    /\ DropLocals
    /\ UNCHANGED globals

----------------------------------------------------------------------------
(* gauss_seidel(A, f, nmax, eps) *)

\* mutant: the entries before i are read from x_old, as in jacobi
GaussSeidelEntryOldOnly(M, b, xn, xo, k, len_) ==
    RMul(RInv(M[k][k]),
         RSub(RSub(b[k], DotRange(M[k], xo, 0, k)),
              DotRange(M[k], xo, k + 1, len_)))

\* 1./A[i,i]*(b[i]-dot(A[i,0:i],x[0:i]) - dot(A[i,i+1:N],x_old[i+1:N]))
GaussSeidelEntry(M, b, xn, xo, k, len_) ==
    RMul(RInv(M[k][k]),
         RSub(RSub(b[k], DotRange(M[k], xn, 0, k)),
              DotRange(M[k], xo, k + 1, len_)))

\* mutant: tol is initialised to the residual norm of the starting vector
GaussSeidelCallInitialResidual ==
    /\ pc = "ready"
    /\ N' = len(A)
    /\ x' = zeros_like(len(f))
    /\ x_old' = ones_like(len(f))
    /\ res' = residual(A, f, x')
    /\ tol' = norm2(res')
    /\ it' = 0
    /\ pc' = "g_while"
    /\ UNCHANGED <<globals, P, i, z, r, p, x_prev, ret>>

GaussSeidelCall ==
    /\ pc = "ready"
    /\ N' = len(A)
    /\ x' = zeros_like(len(f))
    /\ x_old' = ones_like(len(f))
    /\ tol' = Num(RAdd(eps, One))
    /\ it' = 0
    /\ pc' = "g_while"
    /\ UNCHANGED <<globals, P, i, res, z, r, p, x_prev, ret>>

\* mutant: the loop test written it<=nmax
GaussSeidelWhileOffByOne ==
    /\ pc = "g_while"
    /\ IF it <= nmax /\ TolGt(tol, eps)
       THEN /\ it' = it + 1
            /\ i' = 0
            /\ x_prev' = IF it = 0 THEN x_old ELSE x
            /\ pc' = "g_for"
       ELSE /\ pc' = "g_ret"
            /\ UNCHANGED <<it, i, x_prev>>
    /\ UNCHANGED <<globals, P, N, x, x_old, tol, res, z, r, p, ret>>

\* while(it<nmax and tol>eps): it+=1
GaussSeidelWhile ==
    /\ pc = "g_while"
    /\ IF it < nmax /\ TolGt(tol, eps)
       THEN /\ it' = it + 1
            /\ i' = 0
            /\ x_prev' = IF it = 0 THEN x_old ELSE x
            /\ pc' = "g_for"
       ELSE /\ pc' = "g_ret"
            /\ UNCHANGED <<it, i, x_prev>>
    /\ UNCHANGED <<globals, P, N, x, x_old, tol, res, z, r, p, ret>>

\* mutant: x_old is the same array as x (x_old = x, no copy)
GaussSeidelForAliased ==
    /\ pc = "g_for"
    /\ x' = [x EXCEPT ![i] = GaussSeidelEntry(A, f, x, x_old, i, N)]
    /\ x_old' = IF it >= 2 THEN x' ELSE x_old
    /\ i' = i + 1
    /\ pc' = IF i + 1 < N THEN "g_for" ELSE "g_res"
    /\ UNCHANGED <<globals, P, N, tol, it, res, z, r, p, x_prev, ret>>

\* for i in range(N): x[i] = ...
GaussSeidelFor ==
    /\ pc = "g_for"
    /\ x' = [x EXCEPT ![i] = GaussSeidelEntry(A, f, x, x_old, i, N)]
    /\ i' = i + 1
    /\ pc' = IF i + 1 < N THEN "g_for" ELSE "g_res"
    /\ UNCHANGED <<globals, P, N, x_old, tol, it, res, z, r, p, x_prev, ret>>

\* mutant: res and tol are not recomputed in the loop (as in jacobi)
GaussSeidelResidualStaleTol ==
    /\ pc = "g_res"
    /\ x_old' = x
    /\ pc' = "g_while"
    /\ UNCHANGED <<globals, P, N, x, tol, res, it, i, z, r, p, x_prev, ret>>

\* mutant: the residual is computed in place, in the caller's b
GaussSeidelResidualInPlace ==
    /\ pc = "g_res"
    /\ res' = residual(A, f, x)
    /\ f' = res'
    /\ tol' = norm2(res')
    /\ x_old' = x
    /\ pc' = "g_while"
    /\ UNCHANGED <<n, A, A1, u, nmax, eps, P, N, x, it, i, z, r, p, x_prev, ret>>

\* in the loop: res= b-dot(A,x); tol=numpy.linalg.norm(res,2); x_old =x.copy()
GaussSeidelResidual ==
    /\ pc = "g_res"
    /\ res' = residual(A, f, x)
    /\ tol' = norm2(res')
    /\ x_old' = x
    /\ pc' = "g_while"
    /\ UNCHANGED <<globals, P, N, x, it, i, z, r, p, x_prev, ret>>

\* print it, tol; return x
GaussSeidelReturn ==
    /\ pc = "g_ret"
    /\ ret' = [ret EXCEPT !["gauss_seidel"] = Returned(x, it, tol)]
    /\ pc' = "ready"
    /\ DropLocals
    /\ UNCHANGED globals

----------------------------------------------------------------------------
(* gradient(A, f, P, nmax, eps) *)

\* the preconditioners the notebook passes: identity(len(A)) and A
Preconditioners == {identity(len(A)), A}

\* n=len(A); z=zeros_like(b); tol=eps+1
GradientCall ==
    /\ pc = "ready"
    /\ P' \in Preconditioners
    /\ N' = len(A)
    /\ z' = zeros_like(len(f))
    /\ tol' = Num(RAdd(eps, One))
    /\ pc' = "gr_r"
    /\ UNCHANGED <<globals, x, x_old, it, i, res, r, p, x_prev, ret>>

\* mutant: x is bound (to the zero vector) and the call goes on to its end
GradientInitialResidualBoundX ==
    /\ pc = "gr_r"
    /\ ret' = [ret EXCEPT !["gradient"] =
                  [status |-> "returned", x |-> z, r |-> residual(A, f, z),
                   it |-> 0, P |-> P]]
    /\ pc' = "ready"
    /\ DropLocals
    /\ UNCHANGED globals

(* r=b-dot(A,x): x is a local of gradient (it is assigned by x+=z*alpha),   *)
(* and it is not bound yet, so the read raises UnboundLocalError and the   *)
(* call ends there.                                                        *)
GradientInitialResidual ==
    /\ pc = "gr_r"
    /\ ret' = [ret EXCEPT !["gradient"] = RaisedWith("UnboundLocalError", P)]
    /\ pc' = "ready"
    /\ DropLocals
    /\ UNCHANGED globals

----------------------------------------------------------------------------
(* Specification *)

Next ==
    \/ AssembleMatrix
    \/ ImposeBC
    \/ JacobiCall
    \/ JacobiWhile
    \/ JacobiFor
    \/ JacobiAfter
    \/ JacobiReturn
    \/ GaussSeidelCall
    \/ GaussSeidelWhile
    \/ GaussSeidelFor
    \/ GaussSeidelResidual
    \/ GaussSeidelReturn
    \/ GradientCall
    \/ GradientInitialResidual

Spec == Init /\ [][Next]_vars

\* every started cell or call runs on: the interpreter is sequential
FairSpec == Spec /\ WF_vars(Next)

----------------------------------------------------------------------------
(* Properties *)

\* the number of sweeps a cap of k allows
Max0(k) == IF k < 0 THEN 0 ELSE k

\* the solvers were given the system cells 16 and 17 assemble
AssembledSystem ==
    /\ pc \notin {"cell16", "cell17"}
    /\ A = DirichletMatrix(n)
    /\ f = DirichletRhs(n)

\* the Euclidean norm of b - A*v is at most eps
WithinTolerance(v) == TolLe(norm2(residual(A, f, v)), eps)

\* every diagonal entry of A is nonzero
NonzeroDiagonal ==
    /\ pc \notin {"cell16", "cell17"}
    /\ \A k \in 0..(n - 1) : A[k][k] # Zero

\* solver s has returned
HasReturned(s) == ret[s].status = "returned"

C2_JacobiStopsOnTolerance ==
    /\ (pc = "j_for" /\ it >= 2) => ~WithinTolerance(x_prev)
    /\ pc = "j_for" => it <= nmax

(* C3: in jacobi, in every sweep and for every index k, the new entry is    *)
(* (b_k - sum over j # k of A_kj * xk_j) / A_kk, where xk is the full       *)
(* iterate the previous sweep produced (the initial guess in the first).   *)
C3_JacobiUsesPreviousIterate ==
    (pc \in {"j_for", "j_while", "j_after", "j_ret"} /\ it >= 1) =>
        \A k \in 0..(i - 1) : x[k] = JacobiFormula(A, f, x_prev, k)

(* C4: in gauss_seidel, in every sweep and for every index k, the new x_k   *)
(* is (b_k - sum over j < k of A_kj * x_j of this sweep - sum over j > k of *)
(* A_kj * x_j of the previous sweep) / A_kk.                                *)
C4_GaussSeidelUpdate ==
    (pc \in {"g_for", "g_res", "g_while", "g_ret"} /\ it >= 1) =>
        \A k \in 0..(i - 1) : x[k] = GaussSeidelFormula(A, f, x, x_prev, k)

\* C4 witness: a second sweep is complete, and reading only the previous
\* iterate would have given another vector
C4_Witness ==
    /\ pc = "g_res"
    /\ it = 2
    /\ \E k \in 0..(N - 1) : x[k] # JacobiFormula(A, f, x_prev, k)
    /\ x_prev # ones_like(N)

\* eps+1 > eps: the initial value of tol lets the loop start
EpsBelowInitialTol == RLt(eps, RAdd(eps, One))

BothConverged ==
    /\ HasReturned("jacobi")
    /\ HasReturned("gauss_seidel")
    /\ WithinTolerance(ret["jacobi"].value)
    /\ WithinTolerance(ret["gauss_seidel"].value)

(* C6 (as amended): on the assembled Dirichlet system, with the same nmax   *)
(* and eps, when both have converged gauss_seidel has used no more          *)
(* iterations than jacobi.                                                 *)
C6_GaussSeidelNotSlower ==
    (AssembledSystem /\ BothConverged) =>
        ret["gauss_seidel"].it <= ret["jacobi"].it

\* C6 witness: both converged on the assembled system, gauss_seidel sooner
C6_Witness ==
    /\ AssembledSystem
    /\ BothConverged
    /\ ret["gauss_seidel"].it >= 1
    /\ ret["gauss_seidel"].it < ret["jacobi"].it

(* C6 as stated: on the assembled Dirichlet system, with the same nmax and  *)
(* eps, when both have converged the iteration count of gauss_seidel is     *)
(* strictly smaller than that of jacobi (stated here for the calls that     *)
(* iterate at all).                                                        *)
C6_Original ==
    (/\ AssembledSystem
     /\ BothConverged
     /\ ret["gauss_seidel"].it >= 1
     /\ ret["jacobi"].it >= 1) =>
        ret["gauss_seidel"].it < ret["jacobi"].it

\* rows 0 and N-1 of A are identity rows and b[0] = b[N-1] = 0
IdentityBoundaryRows ==
    /\ pc \notin {"cell16", "cell17"}
    /\ \A k \in {0, n - 1} :
          /\ f[k] = Zero
          /\ \A j \in 0..(n - 1) : A[k][j] = IF j = k THEN One ELSE Zero

\* a sweep of jacobi or gauss_seidel is complete
SweepComplete ==
    /\ pc \in {"j_while", "j_after", "j_ret", "g_res", "g_while", "g_ret"}
    /\ it >= 1

InSweepSolver ==
    pc \in {"j_while", "j_for", "j_after", "j_ret",
            "g_while", "g_for", "g_res", "g_ret"}

\* the loop counter is at most cap; no call of jacobi or gauss_seidel has
\* raised; one that returned outside the tolerance made exactly cap sweeps
CappedAndSilent(cap) ==
    NonzeroDiagonal =>
        /\ InSweepSolver => it <= cap
        /\ \A s \in {"jacobi", "gauss_seidel"} :
              /\ ret[s].status # "raised"
              /\ (HasReturned(s) /\ ~WithinTolerance(ret[s].value)) =>
                     ret[s].it = cap

\* the return statement hands back the last iterate computed
ReturnsLastIterate ==
    /\ pc = "j_ret" => ret'["jacobi"] = Returned(x, it, tol)
    /\ pc = "g_ret" => ret'["gauss_seidel"] = Returned(x, it, tol)

(* C8 (as amended): every call of jacobi and gauss_seidel with nonzero      *)
(* diagonal entries terminates after at most nmax sweeps, none when nmax    *)
(* is negative (the loop counter never exceeds max(nmax, 0)), and when the  *)
(* cap is reached with residual norm still > eps the call raises no error   *)
(* and returns the last iterate computed.                                  *)
C8_TerminatesWithinCap ==
    /\ [](CappedAndSilent(Max0(nmax)))
    /\ [][ReturnsLastIterate]_vars
    /\ (InSweepSolver ~> pc = "ready")

\* C8 witness: gauss_seidel returned at the cap, after at least one sweep,
\* a vector outside the tolerance
C8_Witness ==
    /\ NonzeroDiagonal
    /\ HasReturned("gauss_seidel")
    /\ ret["gauss_seidel"].it = nmax
    /\ nmax >= 1
    /\ ~WithinTolerance(ret["gauss_seidel"].value)

(* C8 as stated: every call of jacobi and gauss_seidel with nonzero         *)
(* diagonal entries terminates after at most nmax sweeps (the loop counter  *)
(* never exceeds nmax), and when the cap is reached with residual norm      *)
(* still > eps the call raises no error and returns the last iterate.       *)
C8_Original ==
    /\ [](CappedAndSilent(nmax))
    /\ [][ReturnsLastIterate]_vars
    /\ (InSweepSolver ~> pc = "ready")

\* gradient was called with preconditioner M and the call has ended
GradientEnded(M) ==
    /\ ret["gradient"].status # "none"
    /\ ret["gradient"].P = M

(* C9: gradient called with P = A converges in exactly 1 iteration: the     *)
(* call ends normally with it = 1, r the zero vector and A*x = b.           *)
C9_PreconditionedByA ==
    (pc = "ready" /\ GradientEnded(A)) =>
        /\ ret["gradient"].status = "returned"
        /\ ret["gradient"].it = 1
        /\ ret["gradient"].r = zeros_like(len(f))
        /\ matvec(A, ret["gradient"].x) = f

(* C10: gradient called with P = identity produces the iterates, the        *)
(* residuals and the iteration count of unpreconditioned steepest descent   *)
(* for the same A, b, initial guess, nmax and eps.                          *)
C10_IdentityIsSteepestDescent ==
    (pc = "ready" /\ GradientEnded(identity(len(A)))) =>
        /\ ret["gradient"].status = "returned"
        /\ LET sd == SteepestDescent(A, f, zeros_like(len(f)), 0, nmax, eps)
           IN  /\ ret["gradient"].x = sd.x
               /\ ret["gradient"].r = sd.r
               /\ ret["gradient"].it = sd.it

(* C11: gradient starts from the initial residual r = b - A*x0 and iterates *)
(* (solve P*z = r, alpha = r.z / z.A z, x += alpha*z, r -= alpha*A z) until *)
(* the tolerance or the cap: every call ends normally, with r = b - A*x     *)
(* for its last iterate, and with residual norm <= eps or the iteration     *)
(* count at the cap.                                                        *)
C11_GradientKeepsResidual ==
    (pc = "ready" /\ ret["gradient"].status # "none") =>
        /\ ret["gradient"].status = "returned"
        /\ ret["gradient"].r = residual(A, f, ret["gradient"].x)
        /\ \/ TolLe(norm2(ret["gradient"].r), eps)
           \/ ret["gradient"].it = Max0(nmax)

----------------------------------------------------------------------------
(* Conjugate gradient, as the notebook states it (formulas only, no code):  *)
(*   alpha^k = p^k.r^k / p^k.A p^k                                          *)
(*   x^{k+1} = x^k + alpha^k p^k                                            *)
(*   r^{k+1} = r^k - alpha^k A p^k                                          *)
(*   beta^k  = (A p^k).r^{k+1} / (A p^k).p^k                                *)
(*   p^{k+1} = r^{k+1} - beta^k p^k                                         *)
(* The notebook gives the recurrences and no start; the iteration is        *)
(* started as the method is, from r^0 = b - A x^0 and p^0 = r^0, and it is  *)
(* stopped like the other solvers, on the cap or the tolerance.             *)

\* alpha^k
CGAlpha(M, pk, rk) == RDiv(dot(pk, rk), dot(pk, matvec(M, pk)))

\* mutant: beta^k with the opposite sign
CGBetaNegated(M, pk, rn) ==
    RNeg(RDiv(dot(matvec(M, pk), rn), dot(matvec(M, pk), pk)))

\* beta^k
CGBeta(M, pk, rn) == RDiv(dot(matvec(M, pk), rn), dot(matvec(M, pk), pk))

\* diagonal entries, off-diagonal entries and right-hand side entries of the
\* systems the iteration is run on
CGDiagonal == 2..3
CGEntries == (-1)..1
CGRhsEntries == 0..1

\* the symmetric positive definite 2x2 and 3x3 matrices with these entries
\* (Sylvester's criterion: the leading principal minors are positive)
CGMatrices ==
    { Mat(<< <<t[1], t[2]>>, <<t[2], t[3]>> >>) :
        t \in { s \in CGDiagonal \X CGEntries \X CGDiagonal :
                  s[1] * s[3] - s[2] * s[2] > 0 } }
    \cup
    { Mat(<< <<t[1], t[4], t[6]>>, <<t[4], t[2], t[5]>>, <<t[6], t[5], t[3]>> >>) :
        t \in { s \in CGDiagonal \X CGDiagonal \X CGDiagonal
                      \X CGEntries \X CGEntries \X CGEntries :
                  /\ s[1] * s[2] - s[4] * s[4] > 0
                  /\ s[1] * (s[2] * s[3] - s[5] * s[5])
                       - s[4] * (s[4] * s[3] - s[5] * s[6])
                       + s[6] * (s[4] * s[5] - s[2] * s[6]) > 0 } }

\* the right-hand sides of length m
CGVectors(m) == [0..(m - 1) -> {Rat(k, 1) : k \in CGRhsEntries}]

(* A is an SPD matrix, b a vector, x^0 the zero vector; the cap is          *)
(* N = len(A) and the tolerance is 0.                                       *)
CGInit ==
    /\ pc = "cg_start"
    /\ A \in CGMatrices
    /\ n = len(A)
    /\ f \in CGVectors(len(A))
    /\ x = zeros_like(len(A))
    /\ nmax = len(A)
    /\ eps = Zero
    /\ it = 0 /\ i = 0 /\ N = 0
    /\ A1 = Undefined /\ u = Undefined /\ P = Undefined
    /\ x_old = Undefined /\ tol = Undefined /\ res = Undefined
    /\ z = Undefined /\ r = Undefined /\ p = Undefined
    /\ x_prev = Undefined
    /\ ret = [s \in Solvers |-> NotCalled]

\* r^0 = b - A x^0, p^0 = r^0
CGStart ==
    /\ pc = "cg_start"
    /\ r' = residual(A, f, x)
    /\ p' = r'
    /\ pc' = "cg_while"
    /\ UNCHANGED <<globals, P, N, x, x_old, tol, it, i, res, z, x_prev, ret>>

\* the residual norm is > eps, for eps = 0: the residual is not zero
CGResidualAboveTol == r # zeros_like(len(r))

\* one iteration, while the cap is not reached and the residual norm is > eps
CGStep ==
    /\ pc = "cg_while"
    /\ it < nmax
    /\ CGResidualAboveTol
    /\ LET alpha == CGAlpha(A, p, r)
           rn == vsub(r, vscale(matvec(A, p), alpha))
           beta == CGBeta(A, p, rn)
       IN  /\ x' = vadd(x, vscale(p, alpha))
           /\ r' = rn
           /\ p' = vsub(rn, vscale(p, beta))
    /\ it' = it + 1
    /\ UNCHANGED <<pc, globals, P, N, x_old, tol, i, res, z, x_prev, ret>>

\* the iteration ends on the cap or on the tolerance
CGStop ==
    /\ pc = "cg_while"
    /\ ~(it < nmax /\ CGResidualAboveTol)
    /\ pc' = "cg_done"
    /\ UNCHANGED <<globals, locals, x_prev, ret>>

CGNext ==
    \/ CGStart
    \/ CGStep
    \/ CGStop

CGSpec == CGInit /\ [][CGNext]_vars

(* C12: for every N x N symmetric positive definite A and every b, the      *)
(* conjugate-gradient iteration has a zero residual after at most N         *)
(* iterations: when it ends, with the cap set to N, r is the zero vector,   *)
(* and r is the residual of x, so that A*x = b.                             *)
C12_ConjugateGradientWithinN ==
    pc = "cg_done" =>
        /\ it <= len(A)
        /\ r = zeros_like(len(A))
        /\ matvec(A, x) = f

\* C12 witness: a 3x3 system needed all of its 3 iterations
C12_Witness ==
    /\ pc = "cg_done"
    /\ len(A) = 3
    /\ it = 3
    /\ r = zeros_like(3)
    /\ x # zeros_like(3)

\* cells 16 and 17 have run (cell 17 is the one that assigns A1)
CellsHaveRun == A1 # Undefined

(* C13: after matrix assembly and boundary imposition, A is square and      *)
(* symmetric, rows and columns 0 and N-1 are zero except for a 1 on the     *)
(* diagonal, interior rows keep 2/h^2 on the diagonal and -1/h^2 on the     *)
(* remaining off-diagonals (h = 1/(n-1)), every diagonal entry is nonzero,  *)
(* and b[0] = b[N-1] = 0.                                                   *)
C13_AssembledMatrix ==
    CellsHaveRun =>
        LET Idx == 0..(n - 1)
            Inner == 1..(n - 2)
            h2inv == (n - 1) * (n - 1)
        IN  /\ DOMAIN A = Idx
            /\ \A k \in Idx : DOMAIN A[k] = Idx
            /\ \A j, k \in Idx : A[j][k] = A[k][j]
            /\ \A k \in {0, n - 1} : \A j \in Idx :
                  /\ A[k][j] = IF j = k THEN One ELSE Zero
                  /\ A[j][k] = IF j = k THEN One ELSE Zero
            /\ \A k \in Inner :
                  /\ A[k][k] = Rat(2 * h2inv, 1)
                  /\ \A j \in Inner \ {k} :
                        A[k][j] = IF Abs(j - k) = 1 THEN Rat(-h2inv, 1) ELSE Zero
            /\ \A k \in Idx : A[k][k] # Zero
            /\ f[0] = Zero
            /\ f[n - 1] = Zero

\* C13 witness: the cells have run on a grid with two interior points, which
\* stay coupled, and the right-hand side is not zero inside
C13_Witness ==
    /\ CellsHaveRun
    /\ n >= 4
    /\ A[1][2] = Rat(-((n - 1) * (n - 1)), 1)
    /\ A[0][1] = Zero
    /\ f[1] # Zero

\* a step taken once A is built leaves A and the right-hand side as they are
LeavesSystemUnchanged ==
    pc \notin {"cell16", "cell17"} => (A' = A /\ f' = f)

(* C14: once built, A is immutable: no step of jacobi, gauss_seidel or      *)
(* gradient changes an entry of A or of the right-hand side they are given, *)
(* and the direct solve on the copy A1 leaves A, and A1, as built.          *)
C14_MatrixImmutable ==
    /\ [][LeavesSystemUnchanged]_vars
    /\ [](CellsHaveRun => (A = A1 /\ A = DirichletMatrix(n) /\ f = DirichletRhs(n)))

\* C14 witness: after the direct solve, jacobi and gauss_seidel have made
\* sweeps and returned and gradient has ended
C14_Witness ==
    /\ CellsHaveRun
    /\ u # Undefined
    /\ HasReturned("jacobi") /\ ret["jacobi"].it >= 1
    /\ HasReturned("gauss_seidel") /\ ret["gauss_seidel"].it >= 1
    /\ ret["gradient"].status = "raised"

\* A has a zero diagonal entry
ZeroOnDiagonal ==
    /\ pc \notin {"cell16", "cell17"}
    /\ \E k \in 0..(n - 1) : A[k][k] = Zero

(* C15: when A has a zero diagonal entry, jacobi and gauss_seidel fail with *)
(* an error instead of dividing by it: no call returns after a sweep, and   *)
(* no returned iterate holds an infinite or NaN entry.                      *)
C15_FailFastOnZeroDiagonal ==
    \A s \in {"jacobi", "gauss_seidel"} :
        (ZeroOnDiagonal /\ HasReturned(s)) =>
            /\ ret[s].it = 0
            /\ \A k \in 0..(n - 1) : IsFinite(ret[s].value[k])

\* the step of gradient that computes the initial residual ends the call with
\* the exception
FailsAtInitialResidual ==
    pc = "gr_r" =>
        /\ ret'["gradient"] = RaisedWith("UnboundLocalError", P)
        /\ pc' = "ready"

(* C16: every call of gradient fails at the computation of the initial      *)
(* residual, where the local x is read before being assigned: x is unbound  *)
(* and no iteration has run when the call gets there, the call ends there   *)
(* with UnboundLocalError, it produces no iterate and no iteration count,   *)
(* and gradient never returns.                                              *)
C16_GradientAlwaysFails ==
    /\ [](pc = "gr_r" => (x = Undefined /\ r = Undefined /\ it = 0))
    /\ [][FailsAtInitialResidual]_vars
    /\ [](ret["gradient"].status \in {"none", "raised"})
    /\ [](ret["gradient"].status = "raised" =>
              DOMAIN ret["gradient"] = {"status", "exc", "P"})
    /\ (pc = "gr_r" ~> pc = "ready")

\* C16 witness: gradient has failed when called, with P = A, on the assembled
\* system with a positive cap
C16_Witness ==
    /\ AssembledSystem
    /\ nmax >= 1
    /\ ret["gradient"] = RaisedWith("UnboundLocalError", A)

\* a call of jacobi is in its loop
InJacobiLoop == pc \in {"j_while", "j_for"}

(* C17 (as amended): jacobi never leaves its loop early: tol is not         *)
(* recomputed inside the while loop and keeps its initial value eps+1, so   *)
(* for every A, b, every nmax >= 0 and every eps with eps+1 > eps it        *)
(* performs exactly nmax sweeps.                                            *)
C17_JacobiRunsToCap ==
    /\ InJacobiLoop => tol = Num(RAdd(eps, One))
    /\ (pc = "j_after" /\ nmax >= 0 /\ EpsBelowInitialTol) => it = nmax
    /\ (HasReturned("jacobi") /\ nmax >= 0 /\ EpsBelowInitialTol) =>
           ret["jacobi"].it = nmax

\* C17 witness: jacobi returned after all its sweeps although the residual of
\* its iterate was within the tolerance after the first one
C17_Witness ==
    /\ HasReturned("jacobi")
    /\ nmax >= 2
    /\ EpsBelowInitialTol
    /\ ret["jacobi"].it = nmax
    /\ WithinTolerance(ret["jacobi"].value)

(* C17 as stated: for every A, b, eps and every nmax >= 0 jacobi performs   *)
(* exactly nmax sweeps, tol keeping its initial value eps+1 in the loop.    *)
C17_Original ==
    /\ InJacobiLoop => tol = Num(RAdd(eps, One))
    /\ (pc = "j_after" /\ nmax >= 0) => it = nmax
    /\ (HasReturned("jacobi") /\ nmax >= 0) => ret["jacobi"].it = nmax

\* one Jacobi sweep applied to the all-ones vector
OneSweepFromOnes ==
    [k \in 0..(n - 1) |-> JacobiFormula(A, f, ones_like(n), k)]

(* C18 (as amended): x_old stays the all-ones vector throughout the loop of *)
(* jacobi, so every sweep recomputes the same x: after every completed      *)
(* sweep, and in the vector returned once nmax >= 1 and eps+1 > eps, x is   *)
(* one Jacobi sweep applied to the all-ones vector, whatever nmax and eps.  *)
C18_JacobiResultIsOneSweep ==
    /\ InJacobiLoop => x_old = ones_like(N)
    /\ (pc \in {"j_while", "j_after", "j_ret"} /\ it >= 1) => x = OneSweepFromOnes
    /\ (HasReturned("jacobi") /\ nmax >= 1 /\ EpsBelowInitialTol) =>
           ret["jacobi"].value = OneSweepFromOnes

\* C18 witness: jacobi returned after two sweeps a vector that a Jacobi sweep
\* would still change
C18_Witness ==
    /\ NonzeroDiagonal
    /\ HasReturned("jacobi")
    /\ EpsBelowInitialTol
    /\ ret["jacobi"].it = 2
    /\ ret["jacobi"].value = OneSweepFromOnes
    /\ \E k \in 0..(n - 1) :
          JacobiFormula(A, f, ret["jacobi"].value, k) # ret["jacobi"].value[k]

(* C18 as stated: once nmax >= 1, for every eps, the vector jacobi returns  *)
(* is one Jacobi sweep applied to the all-ones vector, x_old staying the    *)
(* all-ones vector throughout the loop.                                     *)
C18_Original ==
    /\ InJacobiLoop => x_old = ones_like(N)
    /\ (HasReturned("jacobi") /\ nmax >= 1) =>
           ret["jacobi"].value = OneSweepFromOnes

\* writing x[i] in a sweep of gauss_seidel leaves x_old as it is
SweepLeavesOldIterate == pc = "g_for" => x_old' = x_old

(* C19: in gauss_seidel x_old is an independent copy of x: when a sweep     *)
(* after the first starts, and all through it, x_old is the iterate the     *)
(* previous sweep produced, and writing x[i] never changes x_old.           *)
C19_OldIterateIsACopy ==
    /\ []((pc = "g_while" /\ it >= 1) => x_old = x)
    /\ []((pc = "g_for" /\ it >= 2) => x_old = x_prev)
    /\ [][SweepLeavesOldIterate]_vars

\* C19 witness: in the second sweep, x has been written and differs from
\* x_old, which is still the first sweep's iterate
C19_Witness ==
    /\ pc = "g_for"
    /\ it = 2
    /\ i >= 2
    /\ NonzeroDiagonal
    /\ x # x_old
    /\ x_old = x_prev

(* C20 (as amended): for nmax >= 1 and eps+1 > eps, the tolerance value     *)
(* jacobi and gauss_seidel report at the end is the Euclidean norm of       *)
(* b - A*x for exactly the vector x that is returned.                       *)
C20_ReportedTolIsOfReturned ==
    \A s \in {"jacobi", "gauss_seidel"} :
        (HasReturned(s) /\ nmax >= 1 /\ EpsBelowInitialTol) =>
            ret[s].tol = norm2(residual(A, f, ret[s].value))

\* C20 witness: gauss_seidel returned after two sweeps, and the tolerance it
\* reports is that of the returned vector, not zero
C20_Witness ==
    /\ NonzeroDiagonal
    /\ EpsBelowInitialTol
    /\ HasReturned("gauss_seidel")
    /\ ret["gauss_seidel"].it = 2
    /\ ret["gauss_seidel"].tol = norm2(residual(A, f, ret["gauss_seidel"].value))
    /\ ret["gauss_seidel"].tol.v # Zero

(* C20 as stated: for nmax >= 1, the tolerance value jacobi and             *)
(* gauss_seidel report at the end is the Euclidean norm of b - A*x for      *)
(* exactly the vector x that is returned.                                   *)
C20_Original ==
    \A s \in {"jacobi", "gauss_seidel"} :
        (HasReturned(s) /\ nmax >= 1) =>
            ret[s].tol = norm2(residual(A, f, ret[s].value))

(* C21 (as amended): gauss_seidel performs at least one sweep whenever      *)
(* nmax >= 1 and eps+1 > eps, even if the starting vector already satisfies *)
(* the tolerance (tol is initialised to eps+1); when nmax <= 0 it performs  *)
(* no sweep and returns the all-zero vector without having computed any     *)
(* residual (res is unbound and the reported tol is still eps+1).           *)
C21_GaussSeidelFirstSweep ==
    /\ (HasReturned("gauss_seidel") /\ nmax >= 1 /\ EpsBelowInitialTol) =>
           ret["gauss_seidel"].it >= 1
    /\ (pc = "g_ret" /\ nmax <= 0) => (it = 0 /\ res = Undefined)
    /\ (HasReturned("gauss_seidel") /\ nmax <= 0) =>
           /\ ret["gauss_seidel"].it = 0
           /\ ret["gauss_seidel"].value = zeros_like(n)
           /\ ret["gauss_seidel"].tol = Num(RAdd(eps, One))

\* C21 witness: gauss_seidel returned after a sweep although the all-zero
\* starting vector was already within the tolerance
C21_Witness ==
    /\ NonzeroDiagonal
    /\ EpsBelowInitialTol
    /\ nmax >= 1
    /\ WithinTolerance(zeros_like(n))
    /\ HasReturned("gauss_seidel")
    /\ ret["gauss_seidel"].it >= 1
    /\ ret["gauss_seidel"].value # zeros_like(n)

(* C21 as stated: gauss_seidel performs at least one sweep whenever         *)
(* nmax >= 1, whatever eps is; when nmax <= 0 it performs no sweep and      *)
(* returns the all-zero vector without having computed any residual.        *)
C21_Original ==
    /\ (HasReturned("gauss_seidel") /\ nmax >= 1) => ret["gauss_seidel"].it >= 1
    /\ (pc = "g_ret" /\ nmax <= 0) => (it = 0 /\ res = Undefined)
    /\ (HasReturned("gauss_seidel") /\ nmax <= 0) =>
           /\ ret["gauss_seidel"].it = 0
           /\ ret["gauss_seidel"].value = zeros_like(n)
           /\ ret["gauss_seidel"].tol = Num(RAdd(eps, One))

====
